---- MODULE Spec2Model ----
(***************************************************************************)
(* The batch scheduler of PDF Toolkit Pro (class BatchProcessor and the    *)
(* merge-input handler that drives it), as a state machine.                *)
(*                                                                         *)
(* One action is one run-to-completion step of the JavaScript event loop   *)
(* as far as the scheduler is concerned: a synchronous call chain up to    *)
(* the awaits it ends in.  Synchronous chains are written as operators on  *)
(* a record of the whole program state (operator S builds it, Apply writes *)
(* it back), so that "addFiles calls startProcessing calls processBatch    *)
(* calls processFileInBatch" is function composition, as in the source.    *)
(*                                                                         *)
(* Spec is the scheduler and its callers; a handler's awaits are one       *)
(* pending promise there.  SpecPage adds the error paths of the page's     *)
(* other tools, which write the same error counter and log.  SpecHandler   *)
(* follows one call of a handler, or of readFileWithRetry, through each of *)
(* its awaits.  SpecSession is a longer session of the merge input,        *)
(* SpecReentrant one whose onComplete observer submits files, SpecObserved *)
(* the scheduler with observers that throw.  SpecFair and SpecStall state  *)
(* what the engine's scheduling guarantees: every operation ends in the    *)
(* first, lane 1's may never end in the second.                            *)
(***************************************************************************)
EXTENDS Integers, Sequences, FiniteSets, TLC

\* ------------------------------------------------------------------ bounds
MaxFiles == 5          \* files submitted over the lifetime of the page
MaxCalls == 2          \* calls of addFiles over the lifetime of the page
MaxFaults == 1         \* failures the environment chooses (bad file, failed I/O,
                       \* failed operation of another tool)
MaxRetries == 3        \* the retries a direct call of readFileWithRetry passes
MaxSessionCalls == 4   \* calls of addFiles in a session of the merge input
MaxSessionFiles == 4   \* files submitted in a session of the merge input
MaxLiveFiles == 3      \* files submitted where every operation ends
MaxStallCalls == 1     \* calls of addFiles where an operation may never end
batchSize == 4         \* this.batchSize, a field the constructor sets to 10 and the
                       \* code reads only as this.batchSize: checked scaled down

\* ------------------------------------------------------- program constants
maxConcurrent == 3     \* constructor: this.maxConcurrent = 3
DefaultRetries == 3    \* readFileWithRetry(file, retries = 3)
MaxMergeMB == 100      \* mergeFile: 100 * 1024 * 1024 bytes, in MB

Operations == {"merge", "compress", "ocr", "convert", "rotate"}

\* The files the environment can hand in: [type, ext, size], ext the end of
\* the lower-cased name, size in MB.
Files ==
  { [type |-> "application/pdf", ext |-> "pdf", size |-> 1],
    [type |-> "application/pdf", ext |-> "pdf", size |-> 101],
    [type |-> "",                ext |-> "pdf", size |-> 1],
    [type |-> "image/png",       ext |-> "png", size |-> 1],
    [type |-> "text/plain",      ext |-> "txt", size |-> 1] }

GoodFile == [type |-> "application/pdf", ext |-> "pdf", size |-> 1]

Lanes == 0 .. (maxConcurrent - 1)
Ids == 1 .. MaxFiles

Min(a, b) == IF a < b THEN a ELSE b
Ceil(a, b) == (a + b - 1) \div b

VARIABLES
  queue,               \* this.queue: FIFO of batches
  isProcessing,        \* this.isProcessing
  batch,               \* the batch the drain loop is awaiting (local of startProcessing)
  lanes,               \* per lane: the processFileInBatch chain launched by processBatch
  micro,               \* lanes whose awaited promise is already settled, in microtask order
  activeOperations,    \* this.activeOperations
  progress,            \* this.progress
  processingStats,     \* processingStats.filesProcessed / .errors
  errorsCount,         \* global errorsCount
  errorNotifications,  \* global errorNotifications
  mergeFiles,          \* global mergeFiles
  onComplete,          \* this.onComplete: 0 is null, k the closure of the k-th merge-input change
  onError,             \* this.onError: likewise
  item,                \* history, per file: dispatches, outcome, onError calls
  hist,                \* history of the scheduler: loops, runs, callbacks, return value
  h                    \* one call of a handler followed through its awaits (SpecHandler)

sched == << queue, isProcessing, batch, lanes, micro, activeOperations, progress,
            processingStats, errorsCount, errorNotifications, onComplete, onError,
            item, hist >>

vars == << sched, mergeFiles, h >>

NoBatch == [files |-> << >>, operation |-> "none", batchIndex |-> 0, totalBatches |-> 0]
NoLane == [idx |-> -1, st |-> "none", error |-> "none"]
DoneLane == [idx |-> -1, st |-> "done", error |-> "none"]

\* The program state as one record, and its write-back.
S ==
  [ queue |-> queue, isProcessing |-> isProcessing, batch |-> batch, lanes |-> lanes,
    micro |-> micro, activeOperations |-> activeOperations, progress |-> progress,
    processingStats |-> processingStats, errorsCount |-> errorsCount,
    errorNotifications |-> errorNotifications, mergeFiles |-> mergeFiles,
    onComplete |-> onComplete, onError |-> onError, item |-> item, hist |-> hist ]

Apply(s) ==
  /\ queue' = s.queue
  /\ isProcessing' = s.isProcessing
  /\ batch' = s.batch
  /\ lanes' = s.lanes
  /\ micro' = s.micro
  /\ activeOperations' = s.activeOperations
  /\ progress' = s.progress
  /\ processingStats' = s.processingStats
  /\ errorsCount' = s.errorsCount
  /\ errorNotifications' = s.errorNotifications
  /\ mergeFiles' = s.mergeFiles
  /\ onComplete' = s.onComplete
  /\ onError' = s.onError
  /\ item' = s.item
  /\ hist' = s.hist
  /\ h' = h

\* No handler call is being followed.
NoCall ==
  [ pc |-> "idle",          \* idle, read, backoff, onload, transform, resolved, rejected
    file |-> GoodFile, operation |-> "none",
    stage |-> "none",       \* the collaborator call awaited when pc = "transform"
    viaRetry |-> FALSE,     \* the read awaited is the one inside readFileWithRetry
    retries |-> 0, i |-> 0, \* the parameter and the loop variable of readFileWithRetry
    reads |-> 0,            \* history: calls of file.arrayBuffer()
    waits |-> << >>,        \* history: the delays of setTimeout, in units of 1000 ms
    transforms |-> 0,       \* history: calls of a collaborator's transform
    payload |-> 0,          \* the attempt whose buffer the read returned
    error |-> [msg |-> "none", attempt |-> 0] ]

Init ==
  /\ h = NoCall
  /\ queue = << >>
  /\ isProcessing = FALSE
  /\ batch = NoBatch
  /\ lanes = [i \in Lanes |-> NoLane]
  /\ micro = << >>
  /\ activeOperations = 0
  /\ progress = [current |-> 0, total |-> 0, batch |-> 0, batchTotal |-> 0]
  /\ processingStats = [filesProcessed |-> 0, errors |-> 0]
  /\ errorsCount = 0
  /\ errorNotifications = << >>
  /\ mergeFiles = << >>
  /\ onComplete = 0
  /\ onError = 0
  /\ item = [f \in Ids |-> [st |-> "none", dispatched |-> 0, onError |-> 0, run |-> 0]]
  /\ hist = [ loops |-> 0,      \* invocations of startProcessing inside its while loop
              runs |-> 0,       \* drain runs started
              calls |-> 0,      \* calls of addFiles
              lastN |-> -1,     \* the number of files of the last call
              returned |-> 0,   \* the value the last call returned
              faults |-> 0,     \* failures the environment chose
              nextId |-> 1,     \* the next new file
              appended |-> << >>,  \* the file lists of all batches, in the order appended
              runTotal |-> 0,   \* files submitted to the current run
              completes |-> 0,  \* invocations of onComplete
              registered |-> << >>,  \* the calls whose handler set onComplete and onError
              reentered |-> << >>,   \* the calls made from inside onComplete
              summary |-> [cb |-> 0, filesProcessed |-> 0, errors |-> 0,
                           successRate |-> [kind |-> "none", tenths |-> 0]] ]

\* ------------------------------------------------------ operation dispatch
\* type.split('/')[1]
Subtype(type) ==
  CASE type = "application/pdf" -> "pdf"
    [] type = "image/jpeg" -> "jpeg"
    [] type = "image/png" -> "png"
    [] type = "image/bmp" -> "bmp"
    [] type = "image/tiff" -> "tiff"
    [] OTHER -> "none"

\* validateFile(file, allowedTypes)
validateFile(file, allowedTypes) ==
  \/ file.type \in allowedTypes
  \/ \E type \in allowedTypes : file.ext = Subtype(type)

\* What a handler has made of its promise when its synchronous part ends:
\* rejected (it threw), resolved (it returned), or pending (it awaits the
\* payload read or the transform of an external collaborator).
Rejected(msg) == [st |-> "rejected", error |-> msg, push |-> FALSE]
Pending == [st |-> "pending", error |-> "none", push |-> FALSE]

mergeFile(file) ==
  IF ~validateFile(file, {"application/pdf"}) THEN Rejected("Invalid file type")
  ELSE IF file.size > MaxMergeMB THEN Rejected("File too large")
  ELSE [st |-> "resolved", error |-> "none", push |-> TRUE]

compressFile(file) ==
  IF ~validateFile(file, {"application/pdf"}) THEN Rejected("Invalid file type")
  ELSE Pending

ocrFile(file) ==
  IF ~validateFile(file, {"application/pdf", "image/jpeg", "image/png",
                          "image/bmp", "image/tiff"})
  THEN Rejected("Unsupported file type")
  ELSE Pending

convertFile(file) == Pending

\* A switch without its default case: the promise resolves with undefined.
executeOperationNoDefault(file, operation) ==
  CASE operation = "merge" -> mergeFile(file)
    [] operation = "compress" -> compressFile(file)
    [] operation = "ocr" -> ocrFile(file)
    [] operation = "convert" -> convertFile(file)
    [] OTHER -> [st |-> "resolved", error |-> "none", push |-> FALSE]

\* executeOperation(file, operation, options) up to its first await.
executeOperation(file, operation) ==
  CASE operation = "merge" -> mergeFile(file)
    [] operation = "compress" -> compressFile(file)
    [] operation = "ocr" -> ocrFile(file)
    [] operation = "convert" -> convertFile(file)
    [] OTHER -> Rejected("Unknown operation")

\* A failure the environment chose: the file is refused where a good one is not.
IsFault(file, operation) ==
  /\ executeOperation(file, operation).st = "rejected"
  /\ executeOperation(GoodFile, operation).st # "rejected"

\* ------------------------------------------------------------- the lanes
\* processFileInBatch(batch, fileIndex) up to its await, run by lane i on a
\* file with the attributes f.
processFileInBatch(s, i, fileIndex, f) ==
  IF fileIndex >= Len(s.batch.files)
  THEN [s EXCEPT !.lanes[i] = DoneLane]
  ELSE
    LET file == s.batch.files[fileIndex + 1]
        r == executeOperation(f, s.batch.operation)
    IN [s EXCEPT
          !.activeOperations = @ + 1,
          !.lanes[i] = [idx |-> fileIndex, st |-> r.st, error |-> r.error],
          !.micro = IF r.st = "pending" THEN @ ELSE Append(@, i),
          !.mergeFiles = IF r.push THEN Append(@, file) ELSE @,
          !.item[file] = [@ EXCEPT !.st = "inflight", !.dispatched = @ + 1,
                                   !.run = s.hist.runs],
          !.hist.faults = IF IsFault(f, s.batch.operation) THEN @ + 1 ELSE @]

\* The try block after the await returned (lines 144-152).
OnSuccess(s, file) ==
  [s EXCEPT
     !.processingStats.filesProcessed = @ + 1,
     !.progress.current = @ + 1,
     !.progress.batch = @ + 1,
     !.item[file].st = "ok"]

\* A catch block that also counts the failed file as processed.
OnFailureCountsProcessed(s, file, error) ==
  [s EXCEPT
     !.processingStats.filesProcessed = @ + 1,
     !.processingStats.errors = @ + 1,
     !.errorsCount = @ + 1,
     !.errorNotifications = Append(@, [fileName |-> file, errorMessage |-> error]),
     !.item[file].st = "err",
     !.item[file].onError = IF s.onError # 0 THEN @ + 1 ELSE @]

\* A catch block that counts the failure twice.
OnFailureCountsTwice(s, file, error) ==
  [s EXCEPT
     !.processingStats.errors = @ + 2,
     !.errorsCount = @ + 2,
     !.errorNotifications = Append(@, [fileName |-> file, errorMessage |-> error]),
     !.item[file].st = "err",
     !.item[file].onError = IF s.onError # 0 THEN @ + 1 ELSE @]

\* A catch block that does not log the failure.
OnFailureNoRecord(s, file, error) ==
  [s EXCEPT
     !.processingStats.errors = @ + 1,
     !.errorsCount = @ + 1,
     !.item[file].st = "err",
     !.item[file].onError = IF s.onError # 0 THEN @ + 1 ELSE @]

\* The catch block (lines 155-168).
OnFailure(s, file, error) ==
  [s EXCEPT
     !.processingStats.errors = @ + 1,
     !.errorsCount = @ + 1,
     !.errorNotifications = Append(@, [fileName |-> file, errorMessage |-> error]),
     !.item[file].st = "err",
     !.item[file].onError = IF s.onError # 0 THEN @ + 1 ELSE @]

\* A continuation that forgets activeOperations--.
NextInStripeNoRelease(s, i, fileIndex, f) ==
  LET nextIndex == fileIndex + maxConcurrent
  IN IF nextIndex < Len(s.batch.files)
     THEN processFileInBatch(s, i, nextIndex, f)
     ELSE [s EXCEPT !.lanes[i] = DoneLane]

\* A continuation that goes on to fileIndex + 1.
NextInStripeStepOne(s, i, fileIndex, f) ==
  LET s1 == [s EXCEPT !.activeOperations = @ - 1]
      nextIndex == fileIndex + 1
  IN IF nextIndex < Len(s.batch.files)
     THEN processFileInBatch(s1, i, nextIndex, f)
     ELSE [s1 EXCEPT !.lanes[i] = DoneLane]

\* After the try/catch (lines 171-177): release the slot, go on to the
\* lane's next stripe index or end the chain.
NextInStripe(s, i, fileIndex, f) ==
  LET s1 == [s EXCEPT !.activeOperations = @ - 1]
      nextIndex == fileIndex + maxConcurrent
  IN IF nextIndex < Len(s.batch.files)
     THEN processFileInBatch(s1, i, nextIndex, f)
     ELSE [s1 EXCEPT !.lanes[i] = DoneLane]

\* A lane that returns from its catch block instead of falling through.
ResumeStopOnFailure(s, i, result, error, f) ==
  LET fileIndex == s.lanes[i].idx
      file == s.batch.files[fileIndex + 1]
  IN IF result = "resolved"
     THEN NextInStripe(OnSuccess(s, file), i, fileIndex, f)
     ELSE [OnFailure(s, file, error) EXCEPT !.activeOperations = @ - 1,
                                            !.lanes[i] = DoneLane]

\* processFileInBatch from the point its await settles with `result`
\* ("resolved" or "rejected") and error message `error`.
Resume(s, i, result, error, f) ==
  LET fileIndex == s.lanes[i].idx
      file == s.batch.files[fileIndex + 1]
      s1 == IF result = "resolved" THEN OnSuccess(s, file) ELSE OnFailure(s, file, error)
  IN NextInStripe(s1, i, fileIndex, f)

\* ----------------------------------------------------------- the batches
RECURSIVE LaunchLanesAll(_, _, _)
\* A for loop bounded by maxConcurrent alone.
LaunchLanesAll(s, i, fs) ==
  IF i < maxConcurrent
  THEN LaunchLanesAll(processFileInBatch(s, i, i, fs[i]), i + 1, fs)
  ELSE s

RECURSIVE LaunchLanes(_, _, _)
\* The for loop of processBatch (lines 129-131).
LaunchLanes(s, i, fs) ==
  IF i < Min(maxConcurrent, Len(s.batch.files))
  THEN LaunchLanes(processFileInBatch(s, i, i, fs[i]), i + 1, fs)
  ELSE s

\* processBatch(batch) up to its await of Promise.allSettled.
processBatch(s, b, fs) ==
  LET s1 == [s EXCEPT
               !.batch = b,
               !.progress.batch = 0,
               !.progress.batchTotal = Len(b.files),
               !.lanes = [i \in Lanes |-> NoLane]]
  IN LaunchLanes(s1, 0, fs)

\* x.toFixed(1) of the quotient x = num / den (den > 0), in tenths: the
\* nearest tenth, the larger of two equally near.
ToFixed1(num, den) == (20 * num + den) \div (2 * den)

\* const successRate (line 104): a number of tenths of a percent, or what
\* the division by a zero filesProcessed gives.
successRate(filesProcessed, errors) ==
  IF filesProcessed = 0
  THEN [kind |-> IF errors = 0 THEN "NaN" ELSE "-Infinity", tenths |-> 0]
  ELSE [kind |-> "finite",
        tenths |-> ToFixed1((filesProcessed - errors) * 100, filesProcessed)]

\* The end of startProcessing (lines 100-118).
FinishRun(s) ==
  LET summary == [cb |-> s.onComplete,
                  filesProcessed |-> s.processingStats.filesProcessed,
                  errors |-> s.processingStats.errors,
                  successRate |-> successRate(s.processingStats.filesProcessed,
                                              s.processingStats.errors)]
      s1 == [s EXCEPT
               !.isProcessing = FALSE,
               !.batch = NoBatch,
               !.lanes = [i \in Lanes |-> NoLane],
               !.hist.loops = @ - 1]
  IN IF s.onComplete # 0
     THEN [s1 EXCEPT !.hist.completes = @ + 1, !.hist.summary = summary]
     ELSE s1

\* A drain loop written with `if`: it takes the first batch of a run and
\* ends the run when that batch has settled, whatever is waiting.
DrainLoopOnce(s, fs) ==
  IF Len(s.queue) > 0 /\ s.batch = NoBatch
  THEN processBatch([s EXCEPT !.queue = Tail(@)], Head(s.queue), fs)
  ELSE FinishRun(s)

\* The while loop of startProcessing from its test (lines 95-98), up to the
\* await of the batch it dequeues, or through the end of startProcessing.
DrainLoop(s, fs) ==
  IF Len(s.queue) > 0
  THEN processBatch([s EXCEPT !.queue = Tail(@)], Head(s.queue), fs)
  ELSE FinishRun(s)

RECURSIVE QueueItems(_)
QueueItems(q) == IF q = << >> THEN 0 ELSE Len(Head(q).files) + QueueItems(Tail(q))

\* A startProcessing that does not set isProcessing.
startProcessingNoFlag(s, fs) ==
  IF s.isProcessing \/ Len(s.queue) = 0
  THEN s
  ELSE DrainLoop([s EXCEPT
                    !.processingStats = [filesProcessed |-> 0, errors |-> 0],
                    !.hist.loops = @ + 1,
                    !.hist.runs = @ + 1,
                    !.hist.runTotal = QueueItems(s.queue)], fs)

\* A startProcessing that does not return on an empty queue.
startProcessingNoEmptyCheck(s, fs) ==
  IF s.isProcessing
  THEN s
  ELSE DrainLoop([s EXCEPT
                    !.isProcessing = TRUE,
                    !.processingStats = [filesProcessed |-> 0, errors |-> 0],
                    !.hist.loops = @ + 1,
                    !.hist.runs = @ + 1,
                    !.hist.runTotal = QueueItems(s.queue)], fs)

\* A startProcessing that does not reset the counters of the run.
startProcessingNoReset(s, fs) ==
  IF s.isProcessing \/ Len(s.queue) = 0
  THEN s
  ELSE DrainLoop([s EXCEPT
                    !.isProcessing = TRUE,
                    !.hist.loops = @ + 1,
                    !.hist.runs = @ + 1,
                    !.hist.runTotal = QueueItems(s.queue)], fs)

\* A startProcessing that also starts the progress counter afresh.
startProcessingResetsProgress(s, fs) ==
  IF s.isProcessing \/ Len(s.queue) = 0
  THEN s
  ELSE DrainLoop([s EXCEPT
                    !.isProcessing = TRUE,
                    !.processingStats = [filesProcessed |-> 0, errors |-> 0],
                    !.progress.current = 0,
                    !.hist.loops = @ + 1,
                    !.hist.runs = @ + 1,
                    !.hist.runTotal = QueueItems(s.queue)], fs)

\* startProcessing() up to its first await (lines 84-98).
startProcessing(s, fs) ==
  IF s.isProcessing \/ Len(s.queue) = 0
  THEN s
  ELSE DrainLoop([s EXCEPT
                    !.isProcessing = TRUE,
                    !.processingStats = [filesProcessed |-> 0, errors |-> 0],
                    !.hist.loops = @ + 1,
                    !.hist.runs = @ + 1,
                    !.hist.runTotal = QueueItems(s.queue)], fs)

\* ------------------------------------------------------------ submission
\* fileArray.slice(a, b), 0-based, b exclusive
Slice(arr, a, b) == SubSeq(arr, a + 1, Min(b, Len(arr)))

RECURSIVE SplitIntoBatchesFloorTotal(_, _, _, _)
\* A for loop that counts the batches with Math.floor.
SplitIntoBatchesFloorTotal(q, fileArray, operation, i) ==
  IF i < Len(fileArray)
  THEN SplitIntoBatchesFloorTotal(
         Append(q, [files |-> Slice(fileArray, i, i + batchSize),
                    operation |-> operation,
                    batchIndex |-> i \div batchSize,
                    totalBatches |-> Len(fileArray) \div batchSize]),
         fileArray, operation, i + batchSize)
  ELSE q

RECURSIVE SplitIntoBatches(_, _, _, _)
\* The for loop of addFiles (lines 66-75).
SplitIntoBatches(q, fileArray, operation, i) ==
  IF i < Len(fileArray)
  THEN SplitIntoBatches(
         Append(q, [files |-> Slice(fileArray, i, i + batchSize),
                    operation |-> operation,
                    batchIndex |-> i \div batchSize,
                    totalBatches |-> Ceil(Len(fileArray), batchSize)]),
         fileArray, operation, i + batchSize)
  ELSE q

\* An addFiles that leaves it to the caller to start the drain loop.
addFilesNoStart(s, n, operation, fs) ==
  LET fileArray == [k \in 1 .. n |-> s.hist.nextId + k - 1]
      q == SplitIntoBatches(s.queue, fileArray, operation, 0)
      s1 == [s EXCEPT
               !.progress.total = @ + n,
               !.queue = q,
               !.item = [f \in Ids |-> IF f \in s.hist.nextId .. (s.hist.nextId + n - 1)
                                          THEN [@[f] EXCEPT !.st = "queued"] ELSE @[f]],
               !.hist.nextId = @ + n,
               !.hist.calls = @ + 1,
               !.hist.lastN = n,
               !.hist.appended = @ \o [k \in 1 .. (Len(q) - Len(s.queue)) |->
                                         q[Len(s.queue) + k].files],
               !.hist.runTotal = IF s.isProcessing THEN @ + n ELSE @]
  IN [s1 EXCEPT !.hist.returned = Len(s1.queue)]

\* An addFiles that returns the number of batches it left on the queue
\* before the drain loop took one.
addFilesReturnsPushed(s, n, operation, fs) ==
  LET fileArray == [k \in 1 .. n |-> s.hist.nextId + k - 1]
      q == SplitIntoBatches(s.queue, fileArray, operation, 0)
      s1 == [s EXCEPT
               !.progress.total = @ + n,
               !.queue = q,
               !.item = [f \in Ids |-> IF f \in s.hist.nextId .. (s.hist.nextId + n - 1)
                                          THEN [@[f] EXCEPT !.st = "queued"] ELSE @[f]],
               !.hist.nextId = @ + n,
               !.hist.calls = @ + 1,
               !.hist.lastN = n,
               !.hist.appended = @ \o [k \in 1 .. (Len(q) - Len(s.queue)) |->
                                         q[Len(s.queue) + k].files],
               !.hist.runTotal = IF s.isProcessing THEN @ + n ELSE @]
      s2 == IF ~s1.isProcessing THEN startProcessing(s1, fs) ELSE s1
  IN [s2 EXCEPT !.hist.returned = Len(s1.queue)]

\* addFiles(files, operation) with n files; the files are new objects,
\* identified by the numbers hist.nextId .. hist.nextId + n - 1.
addFiles(s, n, operation, fs) ==
  LET fileArray == [k \in 1 .. n |-> s.hist.nextId + k - 1]
      q == SplitIntoBatches(s.queue, fileArray, operation, 0)
      s1 == [s EXCEPT
               !.progress.total = @ + n,
               !.queue = q,
               !.item = [f \in Ids |-> IF f \in s.hist.nextId .. (s.hist.nextId + n - 1)
                                          THEN [@[f] EXCEPT !.st = "queued"] ELSE @[f]],
               !.hist.nextId = @ + n,
               !.hist.calls = @ + 1,
               !.hist.lastN = n,
               !.hist.appended = @ \o [k \in 1 .. (Len(q) - Len(s.queue)) |->
                                         q[Len(s.queue) + k].files],
               !.hist.runTotal = IF s.isProcessing THEN @ + n ELSE @]
      s2 == IF ~s1.isProcessing THEN startProcessing(s1, fs) ELSE s1
  IN [s2 EXCEPT !.hist.returned = Len(s2.queue)]

\* A processBatch that does not wait for the lanes still awaiting.
LaneSettledNoWait(l) == l.st \in {"none", "done", "pending"}

\* ----------------------------------------------------------- event loop
LaneSettled(l) == l.st \in {"none", "done"}

\* An await of the first lane chain to end (Promise.race).
BatchSettledAny(s) == \E i \in Lanes : s.lanes[i].st = "done"

\* Promise.allSettled(promises) of processBatch is settled (line 133).
BatchSettled(s) == \A i \in Lanes : LaneSettled(s.lanes[i])

\* A microtask is queued: an awaited promise is settled and its
\* continuation has not run.  Tasks (events, I/O completions) start only
\* when there is none.
MicrotaskQueued(s) == s.micro # << >> \/ (s.isProcessing /\ BatchSettled(s))

\* One file of Files for each way executeOperation can treat a file under
\* `operation` (files it treats alike lead to the same next state).
Representatives(operation) ==
  { IF executeOperation(GoodFile, operation) = r
    THEN GoodFile
    ELSE CHOOSE f \in Files : executeOperation(f, operation) = r :
    r \in { executeOperation(g, operation) :
             g \in { f \in Files : hist.faults < MaxFaults \/ ~IsFault(f, operation) } } }

\* The attributes of the files the next k dispatches of lanes 0 .. k-1 meet.
FileChoices(operation, k) ==
  { [i \in Lanes |-> IF i < k THEN g[i] ELSE GoodFile] :
      g \in [0 .. (k - 1) -> Representatives(operation)] }

\* The attributes of the file lane i meets if it goes on to a next index.
NextFiles(i) ==
  IF lanes[i].idx + maxConcurrent < Len(batch.files)
  THEN Representatives(batch.operation)
  ELSE {GoodFile}

\* The lanes processBatch launches for the head of queue q.
Launched(q) == IF q = << >> THEN 0 ELSE Min(maxConcurrent, Len(Head(q).files))

WithinBounds(s) ==
  /\ s.hist.nextId - 1 <= MaxFiles
  /\ s.hist.faults <= MaxFaults

\* The sizes of the submissions the bounds leave room for.
SubmitSizes ==
  IF hist.calls < MaxCalls THEN 0 .. (MaxFiles - (hist.nextId - 1)) ELSE {}

\* A caller invokes batchProcessor.addFiles(files, operation).
AddFiles(n, operation) ==
  /\ ~MicrotaskQueued(S)
  /\ \E fs \in FileChoices(operation, IF isProcessing THEN 0 ELSE Min(maxConcurrent, Min(n, batchSize))) :
       \E t \in { addFiles(S, n, operation, fs) } :
         WithinBounds(t) /\ Apply(t)

\* A change handler that leaves callbacks already set in place.
MergeInputChangeKeepsCallbacks(n) ==
  /\ ~MicrotaskQueued(S)
  /\ n > 0
  /\ \E fs \in FileChoices("merge", IF isProcessing THEN 0 ELSE Min(maxConcurrent, Min(n, batchSize))) :
       \E t \in { addFiles([S EXCEPT !.mergeFiles = << >>,
                                    !.onComplete = IF @ # 0 THEN @ ELSE hist.calls + 1,
                                    !.onError = IF @ # 0 THEN @ ELSE hist.calls + 1,
                                    !.hist.registered = Append(@, hist.calls + 1)],
                           n, "merge", fs) } :
         WithinBounds(t) /\ Apply(t)

\* The change handler of the merge input (lines 783-805) with n files chosen.
MergeInputChange(n) ==
  /\ ~MicrotaskQueued(S)
  /\ n > 0
  /\ \E fs \in FileChoices("merge", IF isProcessing THEN 0 ELSE Min(maxConcurrent, Min(n, batchSize))) :
       \E t \in { addFiles([S EXCEPT !.mergeFiles = << >>,
                                    !.onComplete = hist.calls + 1,
                                    !.onError = hist.calls + 1,
                                    !.hist.registered = Append(@, hist.calls + 1)],
                           n, "merge", fs) } :
         WithinBounds(t) /\ Apply(t)

\* The payload read or transform that lane i awaits ends, well or not.
IoComplete(i, result) ==
  /\ ~MicrotaskQueued(S)
  /\ lanes[i].st = "pending"
  /\ \E f \in NextFiles(i) :
       \E t \in { Resume([S EXCEPT !.hist.faults = IF result = "rejected" THEN @ + 1 ELSE @],
                       i, result, "Operation failed", f) } :
         WithinBounds(t) /\ Apply(t)

\* The continuation of the oldest settled await runs.
Microtask ==
  /\ micro # << >>
  /\ LET i == Head(micro) IN
     \E f \in NextFiles(i) :
       \E t \in { Resume([S EXCEPT !.micro = Tail(@)], i, lanes[i].st, lanes[i].error, f) } :
         WithinBounds(t) /\ Apply(t)

\* Promise.allSettled has settled: processBatch returns and the drain loop
\* goes round (lines 95-118).
DrainResume ==
  /\ isProcessing
  /\ micro = << >>
  /\ BatchSettled(S)
  /\ \E fs \in FileChoices(IF queue = << >> THEN "none" ELSE Head(queue).operation, Launched(queue)) :
       \E t \in { DrainLoop(S, fs) } :
         WithinBounds(t) /\ Apply(t)

\* The catch block of extractTextFromPdf (lines 770-775), and of the other
\* tools that count a failure without logging it: text extraction failed.
extractTextFromPdfCatch ==
  /\ ~MicrotaskQueued(S)
  /\ hist.faults < MaxFaults
  /\ Apply([S EXCEPT !.errorsCount = @ + 1, !.hist.faults = @ + 1])

\* The catch block of mergePdfs for one file (lines 934-938): loading
\* mergeFiles[k] failed.  mergePdfs returns at once with fewer than 2 files.
mergePdfsCatch(k) ==
  /\ ~MicrotaskQueued(S)
  /\ hist.faults < MaxFaults
  /\ Len(mergeFiles) >= 2
  /\ k \in 1 .. Len(mergeFiles)
  /\ Apply([S EXCEPT
              !.errorsCount = @ + 1,
              !.errorNotifications =
                 Append(@, [fileName |-> mergeFiles[k], errorMessage |-> "Merge failed"]),
              !.hist.faults = @ + 1])

Next ==
  \/ \E n \in SubmitSizes, operation \in Operations : AddFiles(n, operation)
  \/ \E n \in SubmitSizes : MergeInputChange(n)
  \/ \E i \in Lanes, result \in {"resolved", "rejected"} : IoComplete(i, result)
  \/ Microtask
  \/ DrainResume

Spec == Init /\ [][Next]_vars

\* The scheduler together with the other tools of the page that write the
\* error counter and the error log it shares with them.
NextPage ==
  \/ Next
  \/ extractTextFromPdfCatch
  \/ \E k \in Ids : mergePdfsCatch(k)

SpecPage == Init /\ [][NextPage]_vars

\* A session of the merge input on a page whose scheduler also drains
\* batches that await I/O: more calls than Spec follows, of fewer files.
\* A merge batch alone never awaits I/O, so a change of the merge input
\* meets a scheduler still Draining only behind such a batch.
SessionSizes ==
  IF hist.calls < MaxSessionCalls
  THEN 1 .. (Min(MaxSessionFiles, MaxFiles) - (hist.nextId - 1))
  ELSE {}

NextSession ==
  \/ \E n \in SessionSizes : AddFiles(n, "compress")
  \/ \E n \in SessionSizes : MergeInputChange(n)
  \/ \E i \in Lanes, result \in {"resolved", "rejected"} : IoComplete(i, result)
  \/ Microtask
  \/ DrainResume

SpecSession == Init /\ [][NextSession]_vars

\* ------------------------------------------------------------ scheduling
\* The payload read or transform that lane i awaits ends.
Settles(i) == \E result \in {"resolved", "rejected"} : IoComplete(i, result)

LiveSizes ==
  IF hist.calls < MaxCalls
  THEN 1 .. (Min(MaxLiveFiles, MaxFiles) - (hist.nextId - 1))
  ELSE {}

NextFair ==
  \/ \E n \in LiveSizes : AddFiles(n, "compress")
  \/ \E n \in LiveSizes : MergeInputChange(n)
  \/ \E i \in Lanes : Settles(i)
  \/ Microtask
  \/ DrainResume

\* The scheduler where every operation dispatched ends: the engine runs
\* every queued continuation (the microtasks of the lanes and of the drain
\* loop), and every read or transform a lane awaits settles.  Nothing
\* obliges a caller to submit.
SpecFair ==
  /\ Init /\ [][NextFair]_vars
  /\ WF_vars(Microtask)
  /\ WF_vars(DrainResume)
  /\ \A i \in Lanes : WF_vars(Settles(i))

StallSizes ==
  IF hist.calls < MaxStallCalls
  THEN 1 .. (MaxFiles - (hist.nextId - 1))
  ELSE {}

NextStall ==
  \/ \E n \in StallSizes : AddFiles(n, "compress")
  \/ \E n \in StallSizes : MergeInputChange(n)
  \/ \E i \in Lanes : Settles(i)
  \/ Microtask
  \/ DrainResume

\* The scheduler where what lane 1 awaits need not ever settle (performOCR
\* awaits image.onload and sets no onerror, line 291; a read or a transform
\* may hang), while the engine runs every queued continuation and what the
\* other lanes await settles.
SpecStall ==
  /\ Init /\ [][NextStall]_vars
  /\ WF_vars(Microtask)
  /\ WF_vars(DrainResume)
  /\ \A i \in Lanes \ {1} : WF_vars(Settles(i))

\* ------------------------------------------- an observer that submits
\* An end of startProcessing that invokes onComplete with isProcessing
\* still set, and clears it afterwards.
FinishRunResubmitsFlagLate(s, n, operation, fs) ==
  LET s1 == [FinishRun(s) EXCEPT !.isProcessing = TRUE,
                                 !.hist.reentered = Append(@, s.hist.calls + 1)]
  IN [addFiles(s1, n, operation, fs) EXCEPT !.isProcessing = FALSE]

\* The end of startProcessing (lines 100-118) when the onComplete observer,
\* from inside its invocation (line 110), calls addFiles with n files:
\* isProcessing is already false (line 100) and the summary object already
\* holds copies of the counters (lines 110-115), so addFiles starts
\* startProcessing anew (lines 77-79) before the first invocation returns.
FinishRunResubmits(s, n, operation, fs) ==
  LET s1 == [FinishRun(s) EXCEPT !.hist.reentered = Append(@, s.hist.calls + 1)]
  IN addFiles(s1, n, operation, fs)

\* Promise.allSettled has settled for the last batch of the queue, and the
\* onComplete observer submits n files of its own.  (The observer the merge
\* input registers calls mergePdfs and submits nothing; the field takes any
\* function.)
DrainResumeResubmits(n, operation) ==
  /\ isProcessing
  /\ micro = << >>
  /\ BatchSettled(S)
  /\ queue = << >>
  /\ onComplete # 0
  /\ \E fs \in FileChoices(operation, Min(maxConcurrent, Min(n, batchSize))) :
       \E t \in { FinishRunResubmits(S, n, operation, fs) } :
         WithinBounds(t) /\ Apply(t)

\* A session in which the onComplete observer may submit files.
NextReentrant ==
  \/ NextSession
  \/ \E n \in SessionSizes, operation \in {"compress", "merge"} :
       DrainResumeResubmits(n, operation)

SpecReentrant == Init /\ [][NextReentrant]_vars

\* ------------------------------------------------- observers that throw
\* processFileInBatch from the point its await settles, when the calls it
\* makes out of its try and catch blocks may throw.  progressThrows: the
\* onProgress observer or updateBatchProgress throws (lines 148-151), after
\* the counters of the try block were written, and control goes to the
\* catch block.  onErrorThrows: the onError observer throws inside the catch
\* block (lines 163-165); nothing encloses it, so the exception leaves
\* processFileInBatch before activeOperations-- and before the next index of
\* the stripe, through every enclosing await of the lane's chain: the
\* promise of the lane is rejected, which settles it for Promise.allSettled.
ResumeObserved(s, i, result, error, f, progressThrows, onErrorThrows) ==
  LET fileIndex == s.lanes[i].idx
      file == s.batch.files[fileIndex + 1]
      tried == IF result = "resolved" THEN OnSuccess(s, file) ELSE s
      caught == result = "rejected" \/ progressThrows
      s1 == IF caught
            THEN OnFailure(tried, file, IF result = "rejected" THEN error ELSE "Display failed")
            ELSE tried
  IN IF caught /\ onErrorThrows /\ s.onError # 0
     THEN [s1 EXCEPT !.lanes[i] = DoneLane]
     ELSE NextInStripe(s1, i, fileIndex, f)

\* What can throw once the await settled with `result`.
Throwers(result) ==
  { t \in [progress : BOOLEAN, onError : BOOLEAN] :
      /\ t.progress \/ t.onError
      /\ t.progress => result = "resolved"
      /\ t.onError => onError # 0 /\ (result = "rejected" \/ t.progress) }

\* The payload read or transform that lane i awaits ends, and an observer
\* or the progress display throws.
IoCompleteObserved(i, result) ==
  /\ ~MicrotaskQueued(S)
  /\ lanes[i].st = "pending"
  /\ \E f \in NextFiles(i), th \in Throwers(result) :
       \E t \in { ResumeObserved([S EXCEPT !.hist.faults = IF result = "rejected" THEN @ + 1 ELSE @],
                                 i, result, "Operation failed", f, th.progress, th.onError) } :
         WithinBounds(t) /\ Apply(t)

\* The continuation of the oldest settled await runs, and an observer or
\* the progress display throws.
MicrotaskObserved ==
  /\ micro # << >>
  /\ LET i == Head(micro) IN
     \E f \in NextFiles(i), th \in Throwers(lanes[i].st) :
       \E t \in { ResumeObserved([S EXCEPT !.micro = Tail(@)], i, lanes[i].st, lanes[i].error,
                                 f, th.progress, th.onError) } :
         WithinBounds(t) /\ Apply(t)

\* The scheduler with observers and a progress display that may throw.
NextObserved ==
  \/ Next
  \/ \E i \in Lanes, result \in {"resolved", "rejected"} : IoCompleteObserved(i, result)
  \/ MicrotaskObserved

SpecObserved == Init /\ [][NextObserved]_vars

\* ------------------------------------------------- one handler call in detail
\* What a lane awaits in executeOperation (Pending above), followed through
\* every await of the handler: the payload read, the backoff timers of
\* readFileWithRetry and the calls of the external collaborators.  Operators
\* take and return the record of the call (h).

\* return payload / throw error, out of the async function called.
Return(c, payload) == [c EXCEPT !.pc = "resolved", !.payload = payload]
Throw(c, msg, attempt) ==
  [c EXCEPT !.pc = "rejected", !.error = [msg |-> msg, attempt |-> attempt]]

\* await of a call of an external collaborator.
AwaitTransform(c, stage) ==
  [c EXCEPT !.pc = "transform", !.stage = stage, !.transforms = @ + 1]

\* await file.arrayBuffer()
arrayBuffer(c) == [c EXCEPT !.pc = "read", !.reads = @ + 1]

\* file.type.startsWith('image/')
IsImage(file) == file.type \in {"image/jpeg", "image/png", "image/bmp", "image/tiff"}

\* The caller of the payload read goes on with the buffer of attempt
\* `payload` (0: undefined): compressFile line 216, performOCR line 297,
\* convertToFormat line 320, or the caller of a direct call.
ReturnFromRead(c, payload) ==
  CASE c.operation = "compress" ->
         AwaitTransform([c EXCEPT !.payload = payload], "PDFDocument.load")
    [] c.operation = "ocr" ->
         AwaitTransform([c EXCEPT !.payload = payload], "getDocument")
    [] OTHER -> Return(c, payload)

\* The for loop of readFileWithRetry from its test (lines 261-263).
readFileWithRetryLoop(c) ==
  IF c.i < c.retries THEN arrayBuffer(c) ELSE ReturnFromRead(c, 0)

\* readFileWithRetry(file, retries) up to its first await.
readFileWithRetry(c, retries) ==
  readFileWithRetryLoop([c EXCEPT !.viaRetry = TRUE, !.retries = retries, !.i = 0])

\* A catch block that waits 1000 ms whatever the attempt.
ReadRejectedFlatBackoff(c) ==
  IF c.viaRetry
  THEN IF c.i = c.retries - 1
       THEN Throw(c, "Read failed", c.reads)
       ELSE [c EXCEPT !.pc = "backoff", !.waits = Append(@, 1)]
  ELSE Throw(c, "Read failed", c.reads)

\* file.arrayBuffer() rejected: the catch block of readFileWithRetry
\* (lines 264-267), or the rejection of the handler that read directly.
ReadRejected(c) ==
  IF c.viaRetry
  THEN IF c.i = c.retries - 1
       THEN Throw(c, "Read failed", c.reads)
       ELSE [c EXCEPT !.pc = "backoff", !.waits = Append(@, c.i + 1)]
  ELSE Throw(c, "Read failed", c.reads)

\* file.arrayBuffer() resolved: return await file.arrayBuffer().
ReadResolved(c) == ReturnFromRead(c, c.reads)

\* The timer of line 266 fired: i++ and the loop goes round.
TimerFired(c) == readFileWithRetryLoop([c EXCEPT !.i = @ + 1])

\* performOCR(file) up to its first await (lines 287-297).
performOCR(c) == IF IsImage(c.file) THEN [c EXCEPT !.pc = "onload"] ELSE arrayBuffer(c)

\* convertToFormat(file, format) up to its await (line 320).
convertToFormat(c) == arrayBuffer(c)

\* The collaborator call awaited resolved: the handler goes on to its next
\* await or returns (compressFile 216-227, compressPDF 271-278, performOCR
\* 293-314; the page loop of performOCR is one stage).
TransformResolved(c) ==
  CASE c.stage = "PDFDocument.load" -> AwaitTransform(c, "pdfDoc.save")
    [] c.stage = "getDocument" -> AwaitTransform(c, "pages")
    [] OTHER -> Return(c, c.payload)

\* The handler of `operation` on `file`, from executeOperation through the
\* handler's validation up to its first await.
HandlerCall(file, operation) ==
  LET c == [NoCall EXCEPT !.file = file, !.operation = operation]
      r == executeOperation(file, operation)
  IN CASE r.st = "rejected" -> Throw(c, r.error, 0)
       [] r.st = "resolved" -> Return(c, 0)
       [] operation = "compress" -> readFileWithRetry(c, DefaultRetries)
       [] operation = "ocr" -> performOCR(c)
       [] OTHER -> convertToFormat(c)

\* executeOperation(file, operation) is called on a page just loaded.
Dispatch(file, operation) ==
  /\ h = NoCall
  /\ h' = HandlerCall(file, operation)
  /\ mergeFiles' = IF executeOperation(file, operation).push
                   THEN Append(mergeFiles, 1) ELSE mergeFiles
  /\ UNCHANGED sched

\* readFileWithRetry(file, retries) is called by itself.
CallReadFileWithRetry(file, retries) ==
  /\ h = NoCall
  /\ h' = readFileWithRetry([NoCall EXCEPT !.file = file], retries)
  /\ UNCHANGED << sched, mergeFiles >>

\* The promise of file.arrayBuffer() settles.
ReadSettles(ok) ==
  /\ h.pc = "read"
  /\ h' = IF ok THEN ReadResolved(h) ELSE ReadRejected(h)
  /\ UNCHANGED << sched, mergeFiles >>

TimerFires ==
  /\ h.pc = "backoff"
  /\ h' = TimerFired(h)
  /\ UNCHANGED << sched, mergeFiles >>

\* image.onload (line 291; there is no onerror).
ImageLoads ==
  /\ h.pc = "onload"
  /\ h' = AwaitTransform(h, "recognize")
  /\ UNCHANGED << sched, mergeFiles >>

\* The promise of the collaborator's call settles.
TransformSettles(ok) ==
  /\ h.pc = "transform"
  /\ h' = IF ok THEN TransformResolved(h) ELSE Throw(h, "Operation failed", 0)
  /\ UNCHANGED << sched, mergeFiles >>

NextHandler ==
  \/ \E file \in Files, operation \in Operations : Dispatch(file, operation)
  \/ \E file \in Files, retries \in 0 .. MaxRetries : CallReadFileWithRetry(file, retries)
  \/ \E ok \in BOOLEAN : ReadSettles(ok)
  \/ TimerFires
  \/ ImageLoads
  \/ \E ok \in BOOLEAN : TransformSettles(ok)

SpecHandler == Init /\ [][NextHandler]_vars

\* ------------------------------------------------------------------ claims
Range(seq) == { seq[k] : k \in 1 .. Len(seq) }
Submitted == 1 .. (hist.nextId - 1)
HasOutcome(f) == item[f].st \in {"ok", "err"}
InRun(r, st) == { f \in Ids : item[f].run = r /\ item[f].st = st }
Records(f) == { k \in 1 .. Len(errorNotifications) : errorNotifications[k].fileName = f }
ValidationErrors == {"Invalid file type", "File too large", "Unsupported file type"}
\* The file lane i is working on.
FileOf(i) == batch.files[lanes[i].idx + 1]

\* C1: whenever the scheduler is back to Idle after a run, the run's
\* processed count plus its error count equals the number of files submitted
\* to that run.
C1_DrainedCountsAddUp ==
  (~isProcessing /\ hist.runs > 0) =>
     processingStats.filesProcessed + processingStats.errors = hist.runTotal

\* A drained run with both a processed and a failed file.
C1_Witness ==
  /\ ~isProcessing
  /\ hist.runTotal >= 2
  /\ processingStats.filesProcessed >= 1
  /\ processingStats.errors >= 1

\* C2: for batches B1 appended before B2, no file of B2 is dispatched before
\* every file of B1 has an outcome.
C2_BatchesFifo ==
  \A j, k \in 1 .. Len(hist.appended) :
    j < k =>
      \A x \in Range(hist.appended[j]), y \in Range(hist.appended[k]) :
        item[y].dispatched > 0 => HasOutcome(x)

\* The batch of a second call, made while the first call's batch was being
\* drained, has been dispatched.
C2_Witness ==
  /\ hist.calls = 2
  /\ Len(hist.appended) = 2
  /\ hist.returned = 1
  /\ \E y \in Range(hist.appended[2]) : item[y].dispatched > 0
  /\ \E x \in Range(hist.appended[1]) : item[x].st = "err"

\* C3: activeOperations is the number of files dispatched and without an
\* outcome, and lies between 0 and maxConcurrent.
C3_ActiveBounded ==
  /\ activeOperations \in 0 .. maxConcurrent
  /\ activeOperations = Cardinality({ f \in Ids : item[f].st = "inflight" })

\* All lanes busy, one of them on the second index of its stripe.
C3_Witness ==
  /\ activeOperations = maxConcurrent
  /\ \E i \in Lanes : lanes[i].idx >= maxConcurrent

\* The steps of C4: the scheduler goes Idle -> Draining only in a call of
\* addFiles with files, Draining -> Idle only with the queue empty, and a
\* call while Draining only appends to the queue.
C4_Transitions ==
  /\ (~isProcessing /\ isProcessing') =>
        /\ hist.calls' = hist.calls + 1
        /\ hist.lastN' > 0
        /\ hist.loops' = 1
  /\ (isProcessing /\ ~isProcessing') =>
        /\ queue = << >> /\ queue' = << >>
        /\ hist.calls' = hist.calls
        /\ hist.loops' = 0
  /\ (isProcessing /\ hist.calls' # hist.calls) =>
        /\ isProcessing'
        /\ hist.loops' = hist.loops
        /\ hist.runs' = hist.runs
        /\ SubSeq(queue', 1, Len(queue)) = queue
        /\ UNCHANGED << batch, lanes, micro, activeOperations, processingStats >>

\* C4: in every state at most one drain loop is active, and it is active
\* exactly while isProcessing; every step obeys C4_Transitions.
C4_OneDrainLoop ==
  /\ [](hist.loops \in {0, 1} /\ (isProcessing <=> hist.loops = 1))
  /\ [][C4_Transitions]_vars

\* A call with files made while Draining has left its batch in the queue.
C4_Witness ==
  /\ isProcessing
  /\ hist.calls = 2
  /\ hist.runs = 1
  /\ hist.lastN > 0
  /\ queue # << >>

\* The steps of C5: when a file fails, its lane dispatches the next index of
\* its stripe if there is one and ends otherwise, the other lanes and the
\* queue are as before, the scheduler is still Draining, and a settled batch
\* is followed by the head of the queue.
C5_FailureStep ==
  /\ \A i \in Lanes :
       (lanes[i].idx >= 0 /\ item[FileOf(i)].st = "inflight" /\ item'[FileOf(i)].st = "err") =>
          /\ IF lanes[i].idx + maxConcurrent < Len(batch.files)
             THEN /\ lanes'[i].idx = lanes[i].idx + maxConcurrent
                  /\ item'[batch.files[lanes[i].idx + maxConcurrent + 1]].dispatched = 1
             ELSE lanes'[i] = DoneLane
          /\ \A j \in Lanes \ {i} : lanes'[j] = lanes[j]
          /\ isProcessing'
          /\ UNCHANGED << batch, queue >>
  /\ (isProcessing /\ BatchSettled(S) /\ queue # << >>) =>
          /\ batch' = Head(queue)
          /\ queue' = Tail(queue)
          /\ isProcessing'

\* C5: every step in which a file fails leaves its lane on the next index of
\* its stripe (or ended), the other lanes, the batch and the queue untouched
\* and the scheduler Draining; every step from a settled batch dequeues the
\* next batch.
C5_FailureAbsorbed == [][C5_FailureStep]_vars

\* A lane is on the second index of its stripe after its first file failed.
C5_Witness ==
  \E i \in Lanes :
    /\ lanes[i].idx = i + maxConcurrent
    /\ item[batch.files[i + 1]].st = "err"

\* C6: no file is dispatched more than once.
C6_DispatchedOnce == \A f \in Ids : item[f].dispatched <= 1

\* A batch longer than maxConcurrent is drained, every file dispatched.
C6_Witness ==
  /\ ~isProcessing
  /\ Len(hist.appended) >= 1
  /\ Len(hist.appended[1]) > maxConcurrent
  /\ \A f \in Range(hist.appended[1]) : item[f].dispatched = 1 /\ HasOutcome(f)

\* What the program holds, as seen by C7: everything but the history of calls.
Observable(s) ==
  << s.queue, s.isProcessing, s.batch, s.lanes, s.micro, s.activeOperations,
     s.progress, s.processingStats, s.errorsCount, s.errorNotifications,
     s.mergeFiles, s.onComplete, s.onError, s.item, s.hist.loops, s.hist.runs,
     s.hist.completes, s.hist.summary >>

\* The steps of C7: a call of addFiles with no files leaves the queue,
\* isProcessing, the callbacks' invocation counts, progress and the run
\* counters as they are.
C7_EmptyCallStep ==
  (hist.calls' # hist.calls /\ hist.lastN' = 0) => Observable(S)' = Observable(S)

\* C7: in every state in which a caller can run (no microtask is queued)
\* addFiles with no files, for any operation, returns the program as it found
\* it (only the record of the call itself differs), and so does every such
\* call made.
C7_EmptyIsNoOp ==
  /\ [](~MicrotaskQueued(S) =>
          \A operation \in Operations :
            addFiles(S, 0, operation, [i \in Lanes |-> GoodFile]) =
               [S EXCEPT !.hist.calls = @ + 1, !.hist.lastN = 0,
                         !.hist.returned = Len(queue)])
  /\ [][C7_EmptyCallStep]_vars

\* An empty call was made while Idle after a run that processed files.
C7_Witness ==
  /\ hist.lastN = 0
  /\ ~isProcessing
  /\ hist.runs = 1
  /\ processingStats.filesProcessed > 0

\* The steps of C8: a validation failure of a file adds exactly 1 to the
\* error counts and nothing to the processed count, and changes no other
\* file's outcome.
C8_Step ==
  \A i \in Lanes :
    ( /\ lanes[i].st = "rejected"
      /\ lanes[i].error \in ValidationErrors
      /\ item'[FileOf(i)].st = "err" ) =>
        /\ processingStats'.errors = processingStats.errors + 1
        /\ errorsCount' = errorsCount + 1
        /\ processingStats'.filesProcessed = processingStats.filesProcessed
        /\ \A g \in Ids \ {FileOf(i)} : HasOutcome(g) => item'[g] = item[g]

\* The lanes, the queue and every other file are left by the failure of a
\* file as the success of that file would have left them.
C8_SameAsSuccess ==
  \A i \in Lanes :
    ( /\ micro # << >>
      /\ Head(micro) = i
      /\ lanes[i].st = "rejected"
      /\ lanes[i].error \in ValidationErrors ) =>
        \A f \in NextFiles(i) :
          LET s0 == [S EXCEPT !.micro = Tail(@)]
              failed == Resume(s0, i, "rejected", lanes[i].error, f)
              passed == Resume(s0, i, "resolved", "none", f)
          IN /\ failed.lanes = passed.lanes
             /\ failed.micro = passed.micro
             /\ failed.queue = passed.queue
             /\ failed.batch = passed.batch
             /\ failed.activeOperations = passed.activeOperations
             /\ failed.mergeFiles = passed.mergeFiles
             /\ \A g \in Ids \ {FileOf(i)} : failed.item[g] = passed.item[g]

\* C8: a validation failure adds exactly 1 to the error counts (C8_Step)
\* and leaves every other file as a success would have (C8_SameAsSuccess).
C8_ValidationFailureIsLocal == [][C8_Step]_vars /\ []C8_SameAsSuccess

\* One file of a run failed validation and another was processed.
C8_Witness ==
  /\ processingStats.errors = 1
  /\ processingStats.filesProcessed >= 1
  /\ \E k \in 1 .. Len(errorNotifications) :
       errorNotifications[k].errorMessage \in ValidationErrors

\* The steps of C9: onComplete is invoked only at the end of a run, with the
\* queue empty and every submitted file with an outcome, once, with the
\* numbers of files of that run that were processed and that failed; a run
\* that ends with a callback registered invokes it.
C9_Step ==
  /\ hist.completes' # hist.completes =>
       /\ hist.completes' = hist.completes + 1
       /\ isProcessing /\ ~isProcessing'
       /\ queue = << >> /\ queue' = << >>
       /\ \A f \in Submitted : HasOutcome(f)
       /\ hist.summary'.filesProcessed = Cardinality(InRun(hist.runs, "ok"))
       /\ hist.summary'.errors = Cardinality(InRun(hist.runs, "err"))
  /\ (isProcessing /\ ~isProcessing' /\ onComplete # 0) =>
       hist.completes' = hist.completes + 1

\* C9: onComplete is invoked at most once per run, and every step obeys
\* C9_Step.
C9_CompleteOncePerRun == [](hist.completes <= hist.runs) /\ [][C9_Step]_vars

\* The second run has ended and onComplete has been invoked for both.
C9_Witness ==
  /\ hist.runs = 2
  /\ hist.completes = 2
  /\ ~isProcessing
  /\ hist.summary.filesProcessed >= 1

\* The steps of C10: the step in which a file fails appends exactly one
\* record, naming that file, to the error log and, a callback being
\* registered, invokes onError once with it; the step in which a file
\* succeeds does neither; and neither outcome is ever handled again.
C10_Step ==
  \A f \in Ids :
    /\ (item[f].st # "err" /\ item'[f].st = "err") =>
         /\ Len(errorNotifications') = Len(errorNotifications) + 1
         /\ SubSeq(errorNotifications', 1, Len(errorNotifications)) = errorNotifications
         /\ errorNotifications'[Len(errorNotifications')].fileName = f
         /\ item'[f].onError = IF onError # 0 THEN 1 ELSE 0
    /\ (item[f].st # "ok" /\ item'[f].st = "ok") =>
         /\ errorNotifications' = errorNotifications
         /\ item'[f].onError = 0
    /\ HasOutcome(f) => item'[f] = item[f]

\* onError has been invoked at most once per file, and only for failed files.
C10_Calls ==
  \A f \in Ids :
    /\ item[f].st # "err" => item[f].onError = 0
    /\ item[f].onError <= 1

\* C10: onError is invoked at most once per file and only for a failed
\* file, and every step obeys C10_Step.
C10_OneRecordPerFailure == []C10_Calls /\ [][C10_Step]_vars

\* One file failed with onError registered and was reported once, another
\* was processed.
C10_Witness ==
  \E f, g \in Ids :
    /\ item[f].st = "err" /\ item[f].onError = 1 /\ Cardinality(Records(f)) = 1
    /\ item[g].st = "ok"

\* C11: when a batch completes, progress.batch equals progress.batchTotal,
\* and when the queue has drained, progress.current equals progress.total
\* (the progress record advances at every outcome, success or error).
C11_ProgressReachesTotal ==
  /\ (isProcessing /\ micro = << >> /\ BatchSettled(S)) =>
        progress.batch = progress.batchTotal
  /\ ~isProcessing => progress.current = progress.total

\* C12: a run in which exactly one file failed, by validation, ends with a
\* processed count equal to the number of files of the run (failures are
\* counted as processed) and an error count of 1.
C12_ProcessedCountsFailures ==
  ( /\ ~isProcessing
    /\ hist.runs > 0
    /\ \E f \in Ids :
         /\ InRun(hist.runs, "err") = {f}
         /\ \A k \in Records(f) : errorNotifications[k].errorMessage \in ValidationErrors ) =>
      /\ processingStats.filesProcessed = hist.runTotal
      /\ processingStats.errors = 1

\* C13: the summary onComplete receives carries a success rate that is a
\* number between 0% and 100%, and 0% when every file of the run failed.
C13_SuccessRateWellDefined ==
  hist.completes > 0 =>
    /\ hist.summary.successRate.kind = "finite"
    /\ hist.summary.successRate.tenths \in 0 .. 1000
    /\ hist.summary.filesProcessed = 0 => hist.summary.successRate.tenths = 0

\* C14: in every state the error log is as long as the error counter.
C14_LogLengthIsErrorCount == Len(errorNotifications) = errorsCount

\* The batches waiting or being drained.
LiveBatches == (IF batch = NoBatch THEN << >> ELSE << batch >>) \o queue

\* `after` is `before` followed by exactly ceil(n / batchSize) batches made
\* of the n files first, first + 1, ...: batch j (from 0) is tagged
\* batchIndex j and totalBatches ceil(n / batchSize) and holds the files
\* from j * batchSize on, batchSize of them except for the last batch, which
\* holds the remainder.
AppendsBatchesOf(before, after, first, n) ==
  LET m == Len(after) - Len(before)
  IN /\ SubSeq(after, 1, Len(before)) = before
     /\ (m - 1) * batchSize < n /\ n <= m * batchSize
     /\ \A j \in 1 .. m :
          LET b == after[Len(before) + j]
          IN /\ b.batchIndex = j - 1
             /\ b.totalBatches = m
             /\ Len(b.files) = IF j < m THEN batchSize ELSE n - (m - 1) * batchSize
             /\ \A k \in 1 .. Len(b.files) :
                  b.files[k] = first + (j - 1) * batchSize + k - 1

\* The steps of C15: a call of addFiles with n > 0 files appends the batches
\* of its files to those waiting or being drained.
C15_Step ==
  (hist.calls' # hist.calls /\ hist.lastN' > 0) =>
     AppendsBatchesOf(LiveBatches, LiveBatches', hist.nextId, hist.lastN')

\* C15: a submission of n > 0 files appends exactly ceil(n / batchSize)
\* batches in order, each of batchSize files except the last, which holds
\* the remainder, tagged batchIndex 0 .. totalBatches - 1 with totalBatches
\* that of this submission, and together holding the submitted files in
\* order: on every call made, and for every n up to three batches on the
\* queue of a page just loaded.
C15_BatchesOfSubmission ==
  /\ [](hist.calls = 0 =>
          \A n \in 1 .. (2 * batchSize + 1), operation \in Operations :
            AppendsBatchesOf(queue,
                             SplitIntoBatches(queue, [k \in 1 .. n |-> k], operation, 0),
                             1, n))
  /\ [][C15_Step]_vars

\* A call with more than batchSize files was made while Idle: its full first
\* batch is being drained and the remainder waits as its second batch.
C15_Witness ==
  /\ Len(batch.files) = batchSize
  /\ batch.batchIndex = 0
  /\ batch.totalBatches = 2
  /\ Len(queue) = 1
  /\ queue[1].batchIndex = 1
  /\ queue[1].totalBatches = 2
  /\ Len(queue[1].files) = hist.lastN - batchSize

\* C16: while a batch of N files is drained, the lanes launched are exactly
\* 0 .. min(K, N) - 1; lane i is on an index of its stripe i, i + K, ...
\* below N; and the file at index j has been dispatched, once, exactly when
\* the lane j % K has reached j, which it does only with every earlier index
\* of its stripe at an outcome.
C16_Stripes ==
  batch # NoBatch =>
    LET N == Len(batch.files)
    IN /\ \A i \in Lanes : lanes[i] # NoLane <=> (i < maxConcurrent /\ i < N)
       /\ \A i \in Lanes :
            lanes[i].idx >= 0 => (lanes[i].idx % maxConcurrent = i /\ lanes[i].idx < N)
       /\ \A j \in 0 .. (N - 1) :
            LET l == lanes[j % maxConcurrent]
                it == item[batch.files[j + 1]]
            IN /\ it.st = "queued" <=> (l.idx >= 0 /\ l.idx < j)
               /\ it.st = "inflight" <=> l.idx = j
               /\ it.st \in {"ok", "err"} <=> (l = DoneLane \/ l.idx > j)
               /\ it.dispatched = IF it.st = "queued" THEN 0 ELSE 1

\* Of a full batch, lane 0 is on the second index of its stripe, lane 1 has
\* exhausted its stripe and lane 2 is still on its first index.
C16_Witness ==
  /\ Len(batch.files) = maxConcurrent + 1
  /\ lanes[0].idx = maxConcurrent
  /\ lanes[1] = DoneLane
  /\ lanes[2].idx = 2
  /\ item[batch.files[1]].st = "err"

KnownOperations == {"merge", "compress", "ocr", "convert"}

\* C17: while a batch with an operation outside KnownOperations is drained,
\* every file dispatched is rejected with the unknown-operation error and no
\* handler runs (no lane awaits a read or a transform, nothing is collected
\* for the merge); every file of the batch that has an outcome is an error
\* with its record in the log; and the run goes on by itself: a
\* continuation is queued until the drain loop has left the batch.
C17_UnknownOperation ==
  (batch # NoBatch /\ batch.operation \notin KnownOperations) =>
    /\ \A i \in Lanes :
         lanes[i].idx >= 0 =>
           (lanes[i].st = "rejected" /\ lanes[i].error = "Unknown operation")
    /\ MicrotaskQueued(S)
    /\ \A j \in 1 .. Len(batch.files) :
         LET f == batch.files[j]
         IN /\ item[f].st # "ok"
            /\ f \notin Range(mergeFiles)
            /\ HasOutcome(f) =>
                 /\ Cardinality(Records(f)) = 1
                 /\ \A k \in Records(f) :
                      errorNotifications[k].errorMessage = "Unknown operation"

\* A run of two batches of an unknown operation has ended, every file an error.
C17_Witness ==
  /\ ~isProcessing
  /\ hist.runs = 1
  /\ hist.runTotal = batchSize + 1
  /\ processingStats.errors = hist.runTotal
  /\ Len(errorNotifications) = hist.runTotal
  /\ \A k \in 1 .. Len(errorNotifications) :
       errorNotifications[k].errorMessage = "Unknown operation"

\* The file fails the check of the handler's allow-list (lines 197, 211, 231;
\* convertFile names no list) or is above the size ceiling (line 201).
FailsValidation(file, operation) ==
  \/ file.size > MaxMergeMB
  \/ operation \in {"merge", "compress"} /\ ~validateFile(file, {"application/pdf"})
  \/ operation = "ocr" /\ ~validateFile(file, {"application/pdf", "image/jpeg", "image/png",
                                               "image/bmp", "image/tiff"})

\* C18: a call of the handler of a known operation on a file that fails the
\* allow-list or the size ceiling is rejected with a validation error, with
\* no payload read and no transform called.
C18_ValidationFirst ==
  ( /\ h.pc # "idle"
    /\ h.operation \in KnownOperations
    /\ FailsValidation(h.file, h.operation) ) =>
      /\ h.pc = "rejected"
      /\ h.error.msg \in ValidationErrors
      /\ h.reads = 0
      /\ h.transforms = 0

\* C19: a call of readFileWithRetry with R retries has made at most R
\* reads; before each read but the first it waited, 1, 2, ... units in that
\* order, and it never waits after read R; once it has returned, the
\* payload is that of the last read made, the only one that did not fail;
\* and when it throws, all R reads failed and the error is that of read R.
C19_ReadWithRetry ==
  h.viaRetry =>
    /\ h.reads <= h.retries
    /\ h.waits = [j \in 1 .. Len(h.waits) |-> j]
    /\ h.pc = "read" => Len(h.waits) = h.reads - 1
    /\ h.pc = "backoff" => (Len(h.waits) = h.reads /\ h.reads < h.retries)
    /\ (h.pc = "rejected" /\ h.error.msg = "Read failed") =>
          /\ h.reads = h.retries
          /\ Len(h.waits) = h.retries - 1
          /\ h.error.attempt = h.retries
    /\ (h.pc \in {"transform", "resolved"} \/ (h.pc = "rejected" /\ h.error.msg # "Read failed")) =>
          /\ h.payload = h.reads
          /\ Len(h.waits) = IF h.reads = 0 THEN 0 ELSE h.reads - 1

\* compressFile was rejected by its payload read: three reads failed, with
\* waits of 1 and 2 units between them.
C19_Witness ==
  /\ h.operation = "compress"
  /\ h.pc = "rejected"
  /\ h.error = [msg |-> "Read failed", attempt |-> 3]
  /\ h.reads = 3
  /\ h.waits = << 1, 2 >>

\* C20: every payload read of a handler is made by readFileWithRetry, and a
\* handler is rejected by a failed read only when all its retries failed.
C20_ReadsGoThroughRetry ==
  h.operation \in KnownOperations =>
    /\ h.reads > 0 => h.viaRetry
    /\ (h.pc = "rejected" /\ h.error.msg = "Read failed") => h.reads = DefaultRetries

\* ---------------------------------------------------------------- C21
\* No step takes progress.current or progress.total down, and the step
\* that starts a run zeroes the counters of the run and nothing else: it
\* leaves progress.current, the error counter and the error log as they
\* were and adds the files submitted to progress.total.
C21_Step ==
  /\ progress'.current >= progress.current
  /\ progress'.total >= progress.total
  /\ hist'.runs # hist.runs =>
       /\ processingStats' = [filesProcessed |-> 0, errors |-> 0]
       /\ progress'.current = progress.current
       /\ progress'.total = progress.total + hist'.lastN
       /\ errorsCount' = errorsCount
       /\ errorNotifications' = errorNotifications

\* C21: starting a drain run resets only the counters of the run;
\* progress.current and progress.total are never reset or decreased by any
\* operation.
C21_ProgressMonotone == [][C21_Step]_vars

\* A second run has just started after a first one that counted files.
C21_Witness ==
  /\ hist.runs = 2
  /\ isProcessing
  /\ processingStats = [filesProcessed |-> 0, errors |-> 0]
  /\ progress.current > 0
  /\ errorsCount > 0

\* ---------------------------------------------------------------- C25
\* C25: whenever the scheduler is Idle (isProcessing false) the queue is
\* empty: no batch waits without a drain loop to take it.
C25_IdleQueueEmpty == ~isProcessing => queue = << >>

\* Idle again after a run that drained the batches of two submissions, the
\* second made while the first was draining.
C25_Witness ==
  /\ ~isProcessing
  /\ hist.runs = 1
  /\ hist.calls = 2
  /\ Len(hist.appended) >= 2
  /\ \A f \in Submitted : HasOutcome(f)

\* ---------------------------------------------------------------- C29
\* What a call of addFiles with n files returns, by the claim: made while
\* Draining with `waiting` batches on the queue, or while Idle.
C29_Expected(draining, waiting, n) ==
  IF draining THEN waiting + Ceil(n, batchSize)
  ELSE IF n > 0 THEN Ceil(n, batchSize) - 1
  ELSE 0

\* The steps of C29: a call of addFiles returns what the claim says.
C29_Step ==
  hist.calls' # hist.calls =>
     hist.returned' = C29_Expected(isProcessing, Len(queue), hist.lastN')

\* The scheduler Draining with the batches of m files waiting.
C29_Draining(m) ==
  [S EXCEPT !.isProcessing = TRUE,
            !.queue = SplitIntoBatches(<< >>, [k \in 1 .. m |-> k], "ocr", 0)]

\* C29: addFiles returns the number of batches still waiting: called while
\* Idle with n > 0 files, ceil(n / batchSize) - 1 (the first batch is
\* dequeued before the call returns); called while Draining, the number
\* waiting before plus ceil(n / batchSize).  On every call made, and on a
\* page just loaded for every n up to three batches, Idle or Draining with
\* up to two batches waiting.
C29_ReturnsWaiting ==
  /\ [](hist.calls = 0 =>
          \A n \in 0 .. (2 * batchSize + 1), fs \in FileChoices("ocr", 0) :
            /\ addFiles(S, n, "ocr", fs).hist.returned = C29_Expected(FALSE, 0, n)
            /\ \A m \in 0 .. (2 * batchSize) :
                 addFiles(C29_Draining(m), n, "ocr", fs).hist.returned =
                    C29_Expected(TRUE, Ceil(m, batchSize), n))
  /\ [][C29_Step]_vars

\* A call made while Draining returned the one batch it pushed, after a
\* call made while Idle that started the run.
C29_Witness ==
  /\ hist.calls = 2
  /\ hist.runs = 1
  /\ isProcessing
  /\ hist.lastN > 0
  /\ hist.returned = 1

\* ---------------------------------------------------------------- C24
Last(seq) == seq[Len(seq)]

\* The steps of C24: a registration puts its own callbacks in the two
\* slots, and an invocation of onComplete is one invocation, of the callback
\* registered last, with counts that cover every file submitted, whichever
\* submission brought it.
C24_Step ==
  /\ hist'.registered # hist.registered =>
       /\ hist'.registered = Append(hist.registered, hist'.calls)
       /\ onComplete' = hist'.calls
       /\ onError' = hist'.calls
  /\ hist'.registered = hist.registered =>
       /\ onComplete' = onComplete
       /\ onError' = onError
  /\ hist'.completes # hist.completes =>
       /\ hist'.completes = hist.completes + 1
       /\ hist'.summary.cb = Last(hist.registered)
       /\ \A f \in Submitted : HasOutcome(f)
       /\ hist'.summary.filesProcessed + hist'.summary.errors =
             Cardinality({ f \in Submitted : item[f].run = hist.runs })

\* Two submissions registered callbacks in the first run: the second
\* replaced the callbacks of the first while the run was draining.
C24_Replaced == hist.runs = 1 /\ Len(hist.registered) = 2

\* C24: onComplete and onError are single slots read when they fire.  If a
\* second submission replaces onComplete while the batches of the first are
\* draining, the run ends with exactly one invocation of onComplete, of the
\* callback registered last, whose counts cover the files of both
\* submissions; the callback of the first submission is never invoked.
C24_SingleSlot ==
  /\ [](C24_Replaced =>
          /\ onComplete = hist.registered[2]
          /\ onError = hist.registered[2]
          /\ hist.completes = (IF isProcessing THEN 0 ELSE 1)
          /\ hist.completes = 1 =>
               /\ hist.summary.cb = hist.registered[2]
               /\ hist.summary.filesProcessed + hist.summary.errors = hist.nextId - 1)
  /\ [][C24_Step]_vars

\* The first run has ended after a second registration replaced the first
\* while it was draining, and files of both submissions were counted.
C24_Witness ==
  /\ C24_Replaced
  /\ ~isProcessing
  /\ hist.completes = 1
  /\ hist.summary.cb = hist.registered[2]
  /\ hist.summary.filesProcessed >= 2

\* ---------------------------------------------------------------- C30
\* The files that went through the merge input: those of the calls that
\* registered callbacks (with one batch per call, hist.appended[c] holds the
\* files of call c).
MergeInputFiles == UNION { Range(hist.appended[c]) : c \in Range(hist.registered) }

\* The places of file f in the merge list.
Places(f) == { k \in 1 .. Len(mergeFiles) : mergeFiles[k] = f }

\* C30: when onComplete fires at the end of a merge run, mergeFiles holds
\* every file that passed the validation of mergeFile during that run,
\* exactly once each, also when a second change of the merge input arrived
\* while the run was draining.
C30_MergeListComplete ==
  (~isProcessing /\ hist.runs > 0 /\ onComplete # 0 /\ Len(hist.appended) = hist.calls) =>
     \A f \in MergeInputFiles :
        (item[f].run = hist.runs /\ item[f].st = "ok") => Cardinality(Places(f)) = 1

\* ---------------------------------------------------------------- C27
\* C27: when a dequeued batch completes, every one of its items has reached
\* an outcome and activeOperations is back to 0, also when the onError
\* observer throws while an item's failure is reported.
C27_BatchCompletes ==
  (isProcessing /\ batch # NoBatch /\ micro = << >> /\ BatchSettled(S)) =>
     /\ activeOperations = 0
     /\ \A f \in Range(batch.files) : HasOutcome(f)

\* ---------------------------------------------------------------- C28
\* C28: each item that reached an outcome is counted in exactly one of the
\* counters of the run, processed or errors, also when the onProgress
\* observer or the progress display throws after the item's operation
\* succeeded.
C28_CountedOnce ==
  hist.runs > 0 =>
     processingStats.filesProcessed + processingStats.errors =
        Cardinality({ f \in Submitted : item[f].run = hist.runs /\ HasOutcome(f) })

\* ---------------------------------------------------------------- C26
\* The steps of C26.  A submission from inside onComplete ends one run
\* and starts the next in the same step: the summary handed to the observer
\* holds the counts of the run that ended, the counters start again at 0,
\* and every file submitted is in a batch waiting or being drained.  Every
\* end of a run with an observer registered invokes it once, and the summary
\* of an invocation is not touched until the next.
C26_Step ==
  /\ hist'.reentered # hist.reentered =>
       /\ isProcessing /\ isProcessing'
       /\ hist'.runs = hist.runs + 1
       /\ hist'.loops = 1
       /\ hist'.completes = hist.completes + 1
       /\ hist'.summary.filesProcessed = processingStats.filesProcessed
       /\ hist'.summary.errors = processingStats.errors
       /\ processingStats' = [filesProcessed |-> 0, errors |-> 0]
       /\ hist'.nextId > hist.nextId
       /\ \A f \in hist.nextId .. (hist'.nextId - 1) :
            /\ item'[f].st \in {"queued", "inflight"}
            /\ \E k \in 1 .. Len(LiveBatches') : f \in Range(LiveBatches'[k].files)
  /\ (isProcessing /\ hist'.runs = hist.runs /\ ~isProcessing' /\ onComplete # 0) =>
       /\ hist'.completes = hist.completes + 1
       /\ hist'.summary.filesProcessed = processingStats.filesProcessed
       /\ hist'.summary.errors = processingStats.errors
  /\ hist'.completes = hist.completes => hist'.summary = hist.summary

\* C26: a submission made from inside the onComplete callback is not lost:
\* isProcessing is cleared before onComplete is invoked, so the submission
\* starts a fresh run, whose items are all processed by the time the
\* scheduler is Idle again and which ends with an invocation of onComplete
\* of its own, while the summary handed to the first invocation keeps the
\* counts of the first run.
C26_SubmitFromOnComplete ==
  /\ [](~isProcessing => /\ queue = << >>
                         /\ \A f \in Submitted : HasOutcome(f))
  /\ [](hist.reentered # << >> => hist.completes >= (IF isProcessing THEN 1 ELSE 2))
  /\ [][C26_Step]_vars

\* Idle after a second run that a submission from inside onComplete
\* started: both runs ended with an invocation, the second with the counts
\* of the files submitted from inside.
C26_Witness ==
  /\ ~isProcessing
  /\ hist.runs = 2
  /\ hist.reentered = << hist.calls >>
  /\ hist.completes = 2
  /\ hist.summary.filesProcessed + hist.summary.errors = hist.lastN
  /\ hist.summary.filesProcessed > 0

\* ---------------------------------------------------------------- C22
\* Run r has ended: the scheduler is Idle with the queue empty and, if an
\* observer is registered, it was invoked with the counts of the run.
C22_Ended(r) ==
  /\ ~isProcessing
  /\ hist.runs = r
  /\ queue = << >>
  /\ \A f \in Submitted : HasOutcome(f)
  /\ onComplete # 0 =>
       /\ hist.completes > 0
       /\ hist.summary.cb = onComplete
       /\ hist.summary.filesProcessed = processingStats.filesProcessed
       /\ hist.summary.errors = processingStats.errors

\* C22: if every dispatched operation eventually reaches an outcome, every
\* drain run eventually empties the queue, fires onComplete and returns to
\* Idle, also when submissions arrive while it drains; and a submission
\* made after that starts a new run, which ends likewise.
C22_RunsEnd ==
  \A r \in 1 .. MaxCalls : (isProcessing /\ hist.runs = r) ~> C22_Ended(r)

\* A second run, started by a submission made when the first had ended,
\* has ended with an observer registered.
C22_Witness ==
  /\ C22_Ended(2)
  /\ onComplete # 0
  /\ hist.completes >= 1
  /\ hist.nextId - 1 >= 2

\* ---------------------------------------------------------------- C23
\* The items of the batch being drained that belong to the stripe of lane i.
Stripe(i) ==
  { batch.files[k] : k \in { k \in 1 .. Len(batch.files) : (k - 1) % maxConcurrent = i } }

\* The items of lane i's stripe after the one it is at.
Later(i) ==
  { batch.files[k] : k \in { k \in 1 .. Len(batch.files) :
                               (k - 1) % maxConcurrent = i /\ k - 1 > lanes[i].idx } }

\* While lane i awaits an operation, the run is Draining in its one loop,
\* the later items of the lane's stripe and the items of the batches behind
\* are not dispatched.
C23_Blocked(i) ==
  lanes[i].st = "pending" =>
     /\ isProcessing
     /\ hist.loops = 1
     /\ item[batch.files[lanes[i].idx + 1]].st = "inflight"
     /\ \A f \in Later(i) : item[f].st = "queued" /\ item[f].dispatched = 0
     /\ \A k \in 1 .. Len(queue) :
          \A f \in Range(queue[k].files) : item[f].st = "queued" /\ item[f].dispatched = 0

\* The steps of C23: over a step that leaves an item without an outcome
\* once dispatched, the batch being drained stays the same (none is
\* dequeued), onComplete is not invoked and the scheduler stays Draining in
\* the same run.
C23_Step ==
  \A f \in Ids :
    (item[f].st = "inflight" /\ item'[f].st = "inflight") =>
       /\ batch' = batch
       /\ isProcessing'
       /\ hist'.runs = hist.runs
       /\ hist'.completes = hist.completes
       /\ Len(queue') >= Len(queue)
       /\ SubSeq(queue', 1, Len(queue)) = queue

\* The other lanes have ended their chains with every item of their stripes
\* at an outcome.
C23_OthersDone(i) ==
  \A j \in Lanes \ {i} :
     /\ lanes[j].st \in {"none", "done"}
     /\ \A f \in Stripe(j) : HasOutcome(f)

\* C23: if one item's operation never reaches an outcome, the other lanes
\* of its batch still dispatch and finish every item of their stripes, but
\* the later items of the stalled lane's stripe are never dispatched, no
\* batch behind is ever dequeued, onComplete never fires and the scheduler
\* stays Draining.  Lane 1 is the lane that may stall for ever.
C23_StalledLane ==
  /\ [](\A i \in Lanes : C23_Blocked(i))
  /\ [][C23_Step]_vars
  /\ [](lanes[1].st = "pending" => batch # NoBatch)
  /\ (lanes[1].st = "pending") ~> (lanes[1].st # "pending" \/ C23_OthersDone(1))

\* Lane 1 still awaits its first item, lane 0 has finished both items of
\* its stripe and lane 2 its one, and a batch waits behind.
C23_Witness ==
  /\ lanes[1] = [idx |-> 1, st |-> "pending", error |-> "none"]
  /\ C23_OthersDone(1)
  /\ Cardinality(Stripe(0)) = 2
  /\ queue # << >>
  /\ isProcessing

====
